---- MODULE Spec2Model ----
(***************************************************************************)
(* A model of the floor-plan geometry pipeline of backend/services:        *)
(* wall extraction and collinear merging, opening association, scale       *)
(* conversion and the three entry points that drive them.                  *)
(*                                                                         *)
(* Number representation.  The program computes with Python floats; the    *)
(* model computes the same expressions in exact arithmetic:                *)
(*   - pixel coordinates of walls and polygons are integers;               *)
(*   - an opening's center (x1+x2)/2 is carried in HALF-pixels (x1+x2);    *)
(*   - a distance is carried by its exact square, a reduced rational       *)
(*     [n, d] in (half-pixel)^2, so "dist < 15 px" is "n < 900 * d";       *)
(*   - an angle is carried in hundredths of a degree (round(angle, 2));    *)
(*   - a wall length is <<"centi", k>> for round(length, 2) = k/100 or     *)
(*     <<"sqrt", n>> for the unrounded norm sqrt(n) of a merged wall;      *)
(*   - the scale is carried in units of 1/ScaleDen metre per pixel, a      *)
(*     rounded metre value (round(v, 3)) in millimetres.                   *)
(* Python sequences are 0-based: ids and indices that the program stores   *)
(* (nearest_wall_id, room ids) keep their 0-based values.                  *)
(***************************************************************************)
EXTENDS Integers, Sequences, FiniteSets, TLC

VARIABLES
    pc,             \* position of the running entry point
    entry,          \* "hybrid" | "rooms" | "unified": the entry point called
    scale,          \* scale_m_per_px, in units of 1/ScaleDen m/px
    cleaned,        \* preprocessed['cleaned']: "blank" or "drawn" wall mask
    wall_thickness, \* estimate_wall_thickness(...) in pixels
    lines,          \* cv2.HoughLinesP output inside detect_walls (<<x1,y1,x2,y2>>)
    groups,         \* the groups merge_collinear_lines formed (indices into wall_lines)
    walls,          \* list returned by detect_walls
    rooms,          \* list returned by detect_rooms / detect_rooms_and_overlay
    dets,           \* the boxes the YOLO detector returned
    doors,          \* the door list object created by detect_doors_windows
    windows,        \* the window list object created by detect_doors_windows
    argDoors,       \* value of the door list when the last association call began
    argWindows,     \* value of the window list when the last association call began
    final_json,     \* <<>> while no result was returned, else <<result>>
    stages,         \* the stages executed so far, in order
    error,          \* "" or the exception that ended the call
    contours,       \* the contours cv2.findContours returned to the room detector
    scene,          \* content of the mask while STEPS 2 and 3 run as two tasks
    tasks,          \* positions and locals of those two tasks (<<>> otherwise)
    tie_order,      \* how this build's np.argsort orders equal keys: "keep" | "reverse"
    wall_px,        \* wall pixels of the wall mask, on the coarse grid of SpecFlood
    rooms_px        \* pixels of the mask handed to cv2.findContours, on that grid

vars == <<pc, entry, scale, cleaned, wall_thickness, lines, groups, walls, rooms,
          dets, doors, windows, argDoors, argWindows, final_json, stages, error,
          contours, scene, tasks, tie_order, wall_px, rooms_px>>

(***************************************************************************)
(* Arithmetic helpers                                                      *)
(***************************************************************************)
Abs(x) == IF x < 0 THEN -x ELSE x

MinInt(a, b) == IF a < b THEN a ELSE b

RECURSIVE Gcd(_, _)
Gcd(a, b) == IF b = 0 THEN a ELSE Gcd(b, a % b)

\* Largest r with r * r <= n, by bisection on lo..hi.
RECURSIVE ISqrtIn(_, _, _)
ISqrtIn(n, lo, hi) ==
    IF lo >= hi THEN lo
    ELSE LET mid == (lo + hi + 1) \div 2
         IN IF mid * mid <= n THEN ISqrtIn(n, mid, hi) ELSE ISqrtIn(n, lo, mid - 1)

ISqrt(n) == ISqrtIn(n, 0, MinInt(n, 46340))

\* Exact rationals [n, d], d > 0, reduced.
Rat(n, d) ==
    LET g == Gcd(Abs(n), Abs(d))
        s == IF d < 0 THEN -1 ELSE 1
    IN [n |-> s * (n \div g), d |-> s * (d \div g)]

RInt(k) == [n |-> k, d |-> 1]
RAdd(a, b) ==
    LET g == Gcd(a.d, b.d)
    IN Rat(a.n * (b.d \div g) + b.n * (a.d \div g), (a.d \div g) * b.d)
RSub(a, b) == RAdd(a, [n |-> -b.n, d |-> b.d])
RMul(a, b) ==
    LET g1 == Gcd(Abs(a.n), b.d)
        g2 == Gcd(Abs(b.n), a.d)
    IN Rat((a.n \div g1) * (b.n \div g2), (a.d \div g2) * (b.d \div g1))
RLess(a, b) == a.n * b.d < b.n * a.d
RMin(a, b) == IF RLess(b, a) THEN b ELSE a
RMax(a, b) == IF RLess(a, b) THEN b ELSE a

\* Squared euclidean distance of two integer points.
Dist2(p, q) == (p[1] - q[1]) * (p[1] - q[1]) + (p[2] - q[2]) * (p[2] - q[2])

\* Python round(): nearest integer to num/den (den > 0), ties to even.
RoundHalfEven(num, den) ==
    LET a == Abs(num)
        q == a \div den
        r == a % den
        m == IF 2 * r > den \/ (2 * r = den /\ q % 2 = 1) THEN q + 1 ELSE q
    IN IF num < 0 THEN -m ELSE m

(***************************************************************************)
(* detect_walls: conversion of the Hough segments (wall_detection.py)      *)
(***************************************************************************)
\* round(math.degrees(math.atan2(dy, dx)), 2) in hundredths of a degree, for
\* the directions the segment pools use (reduced to lowest terms).
AtanDegrees(dy, dx) ==
    LET g  == Gcd(Abs(dy), Abs(dx))
        ry == IF g = 0 THEN 0 ELSE dy \div g
        rx == IF g = 0 THEN 0 ELSE dx \div g
    IN CASE ry = 0  /\ rx >= 0  -> 0
         [] ry = 0  /\ rx < 0   -> 18000
         [] rx = 0  /\ ry > 0   -> 9000
         [] rx = 0  /\ ry < 0   -> -9000
         [] ry = 1  /\ rx = 1   -> 4500
         [] ry = -1 /\ rx = -1  -> -13500
         [] ry = -1 /\ rx = 1   -> -4500
         [] ry = 1  /\ rx = -1  -> 13500
         [] ry = 1  /\ rx = 15  -> 381
         [] ry = -1 /\ rx = -15 -> -17619
         [] ry = -1 /\ rx = 15  -> -381
         [] ry = 1  /\ rx = -15 -> 17619
         [] ry = 1  /\ rx = 10  -> 571
         [] ry = -1 /\ rx = -10 -> -17429
         [] ry = -1 /\ rx = 10  -> -571
         [] ry = 1  /\ rx = -10 -> 17429
         [] ry = 4  /\ rx = 3   -> 5313
         [] ry = -4 /\ rx = -3  -> -12687

\* angle = degrees(atan2(y2 - y1, x2 - x1)); if angle < 0: angle += 180
WallAngle(l) ==
    LET a == AtanDegrees(l[4] - l[2], l[3] - l[1])
    IN IF a < 0 THEN a + 18000 ELSE a

\* round(math.sqrt(n), 2) in hundredths: floor(100 * sqrt(n) + 1/2).
RoundSqrtCenti(n) == (ISqrt(40000 * n) + 1) \div 2

\* The dict appended to wall_lines for one Hough segment.
WallLine(l, wall_thickness_px) ==
    [start        |-> <<l[1], l[2]>>,
     end          |-> <<l[3], l[4]>>,
     angle        |-> WallAngle(l),
     length       |-> <<"centi", RoundSqrtCenti(Dist2(<<l[1], l[2]>>, <<l[3], l[4]>>))>>,
     thickness_px |-> wall_thickness_px]

WallLines(ls, wall_thickness_px) ==
    [k \in 1..Len(ls) |-> WallLine(ls[k], wall_thickness_px)]

(***************************************************************************)
(* merge_collinear_lines (wall_detection.py)                               *)
(***************************************************************************)
AngleThreshold == 500       \* angle_threshold = 5.0 degrees
DistanceThreshold == 20     \* distance_threshold = 20.0 px

\* angle_diff = abs(a1 - a2); if angle_diff > 180: angle_diff = 360 - angle_diff
AngleDiff(line1, line2) ==
    LET d == Abs(line1.angle - line2.angle)
    IN IF d > 18000 THEN 36000 - d ELSE d

\* dist = min(|line1.end - line2.start|, |line1.start - line2.end|), squared.
EndpointDist2(line1, line2) ==
    MinInt(Dist2(line1.end, line2.start), Dist2(line1.start, line2.end))

\* The test under which line2 is appended to the group of line1.
Collinear(line1, line2) ==
    /\ AngleDiff(line1, line2) < AngleThreshold
    /\ EndpointDist2(line1, line2) < DistanceThreshold * DistanceThreshold

\* A variant that tests each candidate against the member appended last.
RECURSIVE GroupTailChained(_, _, _, _)
GroupTailChained(ls, i, j, used) ==
    IF j > Len(ls) THEN <<>>
    ELSE IF j \notin used /\ Collinear(ls[i], ls[j])
         THEN <<j>> \o GroupTailChained(ls, j, j + 1, used \cup {j})
         ELSE GroupTailChained(ls, i, j + 1, used)

\* The inner loop over j = i+1 .. len-1: the indices appended to the group of
\* line i, in order, given the indices already used.
RECURSIVE GroupTail(_, _, _, _)
GroupTail(ls, i, j, used) ==
    IF j > Len(ls) THEN <<>>
    ELSE IF j \notin used /\ Collinear(ls[i], ls[j])
         THEN <<j>> \o GroupTail(ls, i, j + 1, used \cup {j})
         ELSE GroupTail(ls, i, j + 1, used)

Range(s) == {s[k] : k \in 1..Len(s)}

\* The outer loop: the groups (sequences of indices into ls) in the order in
\* which they are formed.
RECURSIVE GroupsFrom(_, _, _)
GroupsFrom(ls, i, used) ==
    IF i > Len(ls) THEN <<>>
    ELSE IF i \in used THEN GroupsFrom(ls, i + 1, used)
         ELSE LET group == <<i>> \o GroupTail(ls, i, i + 1, used \cup {i})
              IN <<group>> \o GroupsFrom(ls, i + 1, used \cup Range(group))

MergeGroups(ls) == GroupsFrom(ls, 1, {})

\* all_points: start and end of every line of the group, in order.
AllPoints(ls, group) ==
    [k \in 1..(2 * Len(group)) |->
        IF k % 2 = 1 THEN ls[group[(k + 1) \div 2]].start
        ELSE ls[group[k \div 2]].end]

\* The double loop "find the two most distant points": best is
\* [max_dist, p1, p2] (max_dist squared); a pair replaces it only when
\* strictly farther.
RECURSIVE FarthestFrom(_, _, _, _)
FarthestFrom(pts, i, j, best) ==
    IF i > Len(pts) THEN best
    ELSE IF j > Len(pts) THEN FarthestFrom(pts, i + 1, i + 2, best)
         ELSE LET d == Dist2(pts[i], pts[j])
              IN IF d > best.max_dist
                 THEN FarthestFrom(pts, i, j + 1, [max_dist |-> d, p1 |-> pts[i], p2 |-> pts[j]])
                 ELSE FarthestFrom(pts, i, j + 1, best)

\* A variant that takes the first and the last point of all_points.
FarthestFirstLast(pts) ==
    [max_dist |-> Dist2(pts[1], pts[Len(pts)]), p1 |-> pts[1], p2 |-> pts[Len(pts)]]

Farthest(pts) ==
    FarthestFrom(pts, 1, 2, [max_dist |-> 0, p1 |-> pts[1], p2 |-> pts[2]])

\* What one group contributes to merged.
MergeGroup(ls, group) ==
    IF Len(group) = 1 THEN ls[group[1]]
    ELSE LET f == Farthest(AllPoints(ls, group))
         IN [start  |-> f.p1,
             end    |-> f.p2,
             angle  |-> ls[group[1]].angle,
             length |-> <<"sqrt", f.max_dist>>]

merge_collinear_lines(ls) ==
    LET gs == MergeGroups(ls)
    IN [k \in 1..Len(gs) |-> MergeGroup(ls, gs[k])]

\* detect_walls after the Hough transform returned ls (not None).
DetectWallsFrom(ls, wall_thickness_px) ==
    merge_collinear_lines(WallLines(ls, wall_thickness_px))

(***************************************************************************)
(* Association (association.py)                                            *)
(***************************************************************************)
MaxDistance == 15           \* max_distance = 15.0 px
BoundaryTolerance == 20     \* "if distance < 20" px

Infinity == [n |-> 1, d |-> 0]      \* float('inf'): every rational is below it

\* A pixel threshold as a squared distance in (half-pixel)^2.
PxThreshold(t) == RInt(4 * t * t)

\* A variant without the clamp: the distance to the infinite line.
UnclampedT(dot, len2) == Rat(dot, len2)

\* t = max(0, min(1, dot / line_len**2))
ClampT(dot, len2) == RMax(RInt(0), RMin(RInt(1), Rat(dot, len2)))

\* point is in half-pixels, the segment in pixels; the value is the square of
\* the distance the function returns, in (half-pixel)^2.
point_to_line_distance(point, line_start, line_end) ==
    LET px == point[1]
        py == point[2]
        x1 == 2 * line_start[1]
        y1 == 2 * line_start[2]
        x2 == 2 * line_end[1]
        y2 == 2 * line_end[2]
        len2 == (x2 - x1) * (x2 - x1) + (y2 - y1) * (y2 - y1)
    IN IF len2 = 0
       THEN RInt((px - x1) * (px - x1) + (py - y1) * (py - y1))
       ELSE LET t == ClampT((px - x1) * (x2 - x1) + (py - y1) * (y2 - y1), len2)
                proj_x == RAdd(RInt(x1), RMul(t, RInt(x2 - x1)))
                proj_y == RAdd(RInt(y1), RMul(t, RInt(y2 - y1)))
                ex == RSub(RInt(px), proj_x)
                ey == RSub(RInt(py), proj_y)
            IN RAdd(RMul(ex, ex), RMul(ey, ey))

\* The loop of find_nearest_wall from wall i on (1-based position i is the
\* program's index i - 1); acc is [min_dist, nearest_id].
RECURSIVE NearestFrom(_, _, _, _)
NearestFrom(center, ws, i, acc) ==
    IF i > Len(ws) THEN acc
    ELSE LET dist == point_to_line_distance(center, ws[i].start, ws[i].end)
         IN IF RLess(dist, acc.min_dist)
            THEN NearestFrom(center, ws, i + 1, [min_dist |-> dist, nearest_id |-> i - 1])
            ELSE NearestFrom(center, ws, i + 1, acc)

\* A variant that returns the nearest wall whatever its distance.
find_nearest_wall_unbounded(element, ws) ==
    NearestFrom(element.center, ws, 1, [min_dist |-> Infinity, nearest_id |-> -1]).nearest_id

find_nearest_wall(element, ws) ==
    LET r == NearestFrom(element.center, ws, 1, [min_dist |-> Infinity, nearest_id |-> -1])
    IN IF RLess(r.min_dist, PxThreshold(MaxDistance)) THEN r.nearest_id ELSE -1

\* abs(cv2.pointPolygonTest(poly, center, True)): the distance from the point
\* to the nearest edge of the closed polygon (squared, (half-pixel)^2).
RECURSIVE BoundaryDistFrom(_, _, _, _)
BoundaryDistFrom(center, poly, i, acc) ==
    IF i > Len(poly) THEN acc
    ELSE BoundaryDistFrom(center, poly, i + 1,
            RMin(acc, point_to_line_distance(center, poly[i], poly[(i % Len(poly)) + 1])))

PointPolygonDistance(poly, center) == BoundaryDistFrom(center, poly, 1, Infinity)

\* A variant that stops at the first room in tolerance.
RECURSIVE ConnectedFirst(_, _, _)
ConnectedFirst(center, rs, i) ==
    IF i > Len(rs) THEN <<>>
    ELSE IF RLess(PointPolygonDistance(rs[i].polygon, center), PxThreshold(BoundaryTolerance))
         THEN <<rs[i].id>>
         ELSE ConnectedFirst(center, rs, i + 1)

RECURSIVE ConnectedFrom(_, _, _)
ConnectedFrom(center, rs, i) ==
    IF i > Len(rs) THEN <<>>
    ELSE IF RLess(PointPolygonDistance(rs[i].polygon, center), PxThreshold(BoundaryTolerance))
         THEN <<rs[i].id>> \o ConnectedFrom(center, rs, i + 1)
         ELSE ConnectedFrom(center, rs, i + 1)

find_connected_rooms(element, rs) == ConnectedFrom(element.center, rs, 1)

\* d[key] = value on a Python dict.
SetKey(d, key, value) ==
    [k \in DOMAIN d \cup {key} |-> IF k = key THEN value ELSE d[k]]

\* The state of the two list objects after associate_elements_with_walls ran:
\* the function assigns into the dicts it was given and returns the same lists.
WallsAssociated(elems, ws) ==
    [k \in 1..Len(elems) |-> SetKey(elems[k], "nearest_wall_id", find_nearest_wall(elems[k], ws))]

\* Likewise for associate_elements_with_rooms; key is 'connects_rooms' for the
\* doors and 'room_id' for the windows.
RoomsAssociated(elems, rs, key) ==
    [k \in 1..Len(elems) |-> SetKey(elems[k], key, find_connected_rooms(elems[k], rs))]

(***************************************************************************)
(* Scale conversion (scale_conversion.py)                                  *)
(***************************************************************************)
ScaleDen == 10 * 1000       \* scale is in units of 1/ScaleDen m/px

\* A variant that rounds the pixel value without multiplying by the scale.
px_to_m_unscaled(vnum, vden, s) == RoundHalfEven(vnum * ScaleDen, vden * (ScaleDen \div 1000))

\* px_to_m of the pixel value vnum/vden: round(value * scale_m_per_px, 3), in mm.
px_to_m(vnum, vden, s) == RoundHalfEven(vnum * s, vden * (ScaleDen \div 1000))

point_px_to_m(point, s) == <<px_to_m(point[1], 1, s), px_to_m(point[2], 1, s)>>

\* A variant that halves the pixel area before converting it.
RoomAreaHalved(area_px, s) == px_to_m(area_px, 2, s) * s

\* px_to_m(room['area_px']) * scale_m_per_px, in units of 1e-3/ScaleDen m^2.
RoomAreaM2(area_px, s) == px_to_m(area_px, 1, s) * s

RoomM(room, s) ==
    [id          |-> room.id,
     polygon     |-> [k \in 1..Len(room.polygon) |-> point_px_to_m(room.polygon[k], s)],
     area_m2     |-> RoomAreaM2(room.area_px, s),
     num_corners |-> room.num_corners]

\* A raw wall's length is k/100 px.
WallM(wall, s) ==
    [start       |-> point_px_to_m(wall.start, s),
     end         |-> point_px_to_m(wall.end, s),
     thickness_m |-> px_to_m(wall.thickness_px, 1, s),
     length_m    |-> px_to_m(wall.length[2], 100, s),
     angle       |-> wall.angle]

HasKey(d, key) == key \in DOMAIN d

\* A variant that drops wall index 0.
ExportsPositiveWallId(elem) == HasKey(elem, "nearest_wall_id") /\ elem.nearest_wall_id > 0

\* "if 'nearest_wall_id' in door and door['nearest_wall_id'] >= 0"
ExportsWallId(elem) == HasKey(elem, "nearest_wall_id") /\ elem.nearest_wall_id >= 0

\* "if key in elem and elem[key]" for the room list
ExportsRooms(elem, key) == HasKey(elem, key) /\ elem[key] /= <<>>

\* door_data / window_data; key is 'connects_rooms' or 'room_id'.
OpeningM(elem, key, default_type, s) ==
    LET base == [type        |-> IF HasKey(elem, "type") THEN elem.type ELSE default_type,
                 position    |-> <<px_to_m(elem.center[1], 2, s), px_to_m(elem.center[2], 2, s)>>,
                 width_m     |-> px_to_m(elem.width, 1, s),
                 height_m    |-> px_to_m(elem.height, 1, s),
                 orientation |-> elem.orientation,
                 confidence  |-> elem.confidence]
        withRooms == IF ExportsRooms(elem, key) THEN SetKey(base, key, elem[key]) ELSE base
    IN IF ExportsWallId(elem)
       THEN SetKey(withRooms, "nearest_wall_id", elem.nearest_wall_id)
       ELSE withRooms

\* wall['thickness_px'] raises KeyError on a wall dict without that key.
ScaleConversionRaises(ws) == \E k \in 1..Len(ws) : ~HasKey(ws[k], "thickness_px")

\* A variant that exports only the openings that have a wall link.
apply_scale_conversion_linked_only(rs, ws, ds, wins, s) ==
    LET linked_ds == SelectSeq(ds, ExportsWallId)
        linked_wins == SelectSeq(wins, ExportsWallId)
    IN [metadata |-> [scale_m_per_px |-> s,
                      total_rooms    |-> Len(rs),
                      total_walls    |-> Len(ws),
                      total_doors    |-> Len(ds),
                      total_windows  |-> Len(wins)],
        rooms    |-> [k \in 1..Len(rs) |-> RoomM(rs[k], s)],
        walls    |-> [k \in 1..Len(ws) |-> WallM(ws[k], s)],
        doors    |-> [k \in 1..Len(linked_ds) |->
                         OpeningM(linked_ds[k], "connects_rooms", <<"d","o","o","r">>, s)],
        windows  |-> [k \in 1..Len(linked_wins) |->
                         OpeningM(linked_wins[k], "room_id", <<"w","i","n","d","o","w">>, s)]]

apply_scale_conversion(rs, ws, ds, wins, s) ==
    [metadata |-> [scale_m_per_px |-> s,
                   total_rooms    |-> Len(rs),
                   total_walls    |-> Len(ws),
                   total_doors    |-> Len(ds),
                   total_windows  |-> Len(wins)],
     rooms    |-> [k \in 1..Len(rs) |-> RoomM(rs[k], s)],
     walls    |-> [k \in 1..Len(ws) |-> WallM(ws[k], s)],
     doors    |-> [k \in 1..Len(ds) |-> OpeningM(ds[k], "connects_rooms", <<"d","o","o","r">>, s)],
     windows  |-> [k \in 1..Len(wins) |-> OpeningM(wins[k], "room_id", <<"w","i","n","d","o","w">>, s)]]

(***************************************************************************)
(* Opening detection (element_detection.py, yolov8_service.py)             *)
(* A class label is a sequence of one-character strings.                   *)
(***************************************************************************)
UpperLetters ==
    <<"A", "B", "C", "D", "E", "F", "G", "H", "I", "J", "K", "L", "M",
      "N", "O", "P", "Q", "R", "S", "T", "U", "V", "W", "X", "Y", "Z">>

LowerLetters ==
    <<"a", "b", "c", "d", "e", "f", "g", "h", "i", "j", "k", "l", "m",
      "n", "o", "p", "q", "r", "s", "t", "u", "v", "w", "x", "y", "z">>

LowerChar(c) ==
    IF \E i \in 1..Len(UpperLetters) : UpperLetters[i] = c
    THEN LowerLetters[CHOOSE i \in 1..Len(UpperLetters) : UpperLetters[i] = c]
    ELSE c

\* A variant that compares the label as it is.
NoLower(name) == name

\* str.lower()
Lower(name) == [k \in 1..Len(name) |-> LowerChar(name[k])]

\* "sub in name"
Contains(sub, name) ==
    \E k \in 0..(Len(name) - Len(sub)) : SubSeq(name, k + 1, k + Len(sub)) = sub

DoorWord == <<"d", "o", "o", "r">>
WindowWord == <<"w", "i", "n", "d", "o", "w">>
WallWord == <<"w", "a", "l", "l">>

\* A detection is [name, conf, box]: results.names[cls], the confidence in
\* units of 1e-4 and the box <<x1, y1, x2, y2>> after int().
IsDoor(det) == Contains(DoorWord, Lower(det.name))
IsWindow(det) == ~IsDoor(det) /\ Contains(WindowWord, Lower(det.name))

\* The element dict of one kept box, with its 'type'.
Element(det) ==
    LET x1 == det.box[1]
        y1 == det.box[2]
        x2 == det.box[3]
        y2 == det.box[4]
        width == x2 - x1
        height == y2 - y1
    IN [bbox        |-> det.box,
        center      |-> <<x1 + x2, y1 + y2>>,
        width       |-> width,
        height      |-> height,
        orientation |-> IF width > height THEN "horizontal" ELSE "vertical",
        confidence  |-> RoundHalfEven(det.conf, 10),
        type        |-> Lower(det.name)]

Elements(boxes) == [k \in 1..Len(boxes) |-> Element(boxes[k])]

detect_doors_windows(boxes) ==
    [doors   |-> Elements(SelectSeq(boxes, IsDoor)),
     windows |-> Elements(SelectSeq(boxes, IsWindow))]

(***************************************************************************)
(* Room extraction                                                         *)
(* A contour is [area2, peri, approx]: twice cv2.contourArea (a multiple   *)
(* of 1/2), cv2.arcLength rounded to a pixel, and the vertices that        *)
(* cv2.approxPolyDP returns for it.                                        *)
(***************************************************************************)
ImageShape == <<100, 100>>    \* (height, width) of the input image

\* "area < total_area * min_area_ratio" with min_area_ratio = 0.001
BelowMinArea(cnt) == 1000 * cnt.area2 < 2 * ImageShape[1] * ImageShape[2]

\* A variant in which a dropped contour still takes an id.
RECURSIVE HybridRoomsIdByIndex(_, _, _)
HybridRoomsIdByIndex(cnts, i, room_id) ==
    IF i > Len(cnts) THEN <<>>
    ELSE LET cnt == cnts[i]
         IN IF BelowMinArea(cnt) \/ Len(cnt.approx) < 3
            THEN HybridRoomsIdByIndex(cnts, i + 1, room_id + 1)
            ELSE <<[id          |-> room_id,
                    polygon     |-> cnt.approx,
                    area_px     |-> cnt.area2 \div 2,
                    num_corners |-> Len(cnt.approx)]>>
                 \o HybridRoomsIdByIndex(cnts, i + 1, room_id + 1)

\* hybrid/room_detection.py detect_rooms: the loop over the contours from
\* contour i on, room_id being the next id.
RECURSIVE HybridRoomsFrom(_, _, _)
HybridRoomsFrom(cnts, i, room_id) ==
    IF i > Len(cnts) THEN <<>>
    ELSE LET cnt == cnts[i]
         IN IF BelowMinArea(cnt) \/ Len(cnt.approx) < 3
            THEN HybridRoomsFrom(cnts, i + 1, room_id)
            ELSE <<[id          |-> room_id,
                    polygon     |-> cnt.approx,
                    area_px     |-> cnt.area2 \div 2,
                    num_corners |-> Len(cnt.approx)]>>
                 \o HybridRoomsFrom(cnts, i + 1, room_id + 1)

\* A variant that reports the whole image as one room when no contour is found.
detect_rooms_whole_image(cnts) ==
    IF cnts = <<>>
    THEN <<[id          |-> 0,
            polygon     |-> <<<<0, 0>>, <<ImageShape[2], 0>>, <<ImageShape[2], ImageShape[1]>>,
                              <<0, ImageShape[1]>>>>,
            area_px     |-> ImageShape[1] * ImageShape[2],
            num_corners |-> 4]>>
    ELSE HybridRoomsFrom(cnts, 1, 0)

detect_rooms(cnts) == HybridRoomsFrom(cnts, 1, 0)

\* room_detection.py _snap_axis_aligned: coordinate c (1 = x, 2 = y) of vertex
\* i after the loop over j = k..n: the last j /= i within tol wins, read from
\* the unsnapped pts.
RECURSIVE SnapCoord(_, _, _, _, _, _)
SnapCoord(pts, tol, i, c, k, cur) ==
    IF k > Len(pts) THEN cur
    ELSE IF i /= k /\ Abs(pts[i][c] - pts[k][c]) < tol
         THEN SnapCoord(pts, tol, i, c, k + 1, pts[k][c])
         ELSE SnapCoord(pts, tol, i, c, k + 1, cur)

snap_axis_aligned(pts, tol) ==
    [i \in 1..Len(pts) |->
        <<SnapCoord(pts, tol, i, 1, 1, pts[i][1]), SnapCoord(pts, tol, i, 2, 1, pts[i][2])>>]

RECURSIVE SumCoord(_, _, _)
SumCoord(pts, c, k) == IF k = 0 THEN 0 ELSE pts[k][c] + SumCoord(pts, c, k - 1)

\* The order of atan2(v[2], v[1]) in (-pi, pi]: 0 for angles below 0, 1 for
\* the angle 0 (the zero vector included), 2 for angles in (0, pi), 3 for pi.
AngleHalf(v) ==
    IF v[2] < 0 THEN 0
    ELSE IF v[2] > 0 THEN 2
    ELSE IF v[1] >= 0 THEN 1 ELSE 3

AngleLess(u, v) ==
    \/ AngleHalf(u) < AngleHalf(v)
    \/ /\ AngleHalf(u) = AngleHalf(v)
       /\ AngleHalf(u) \in {0, 2}
       /\ u[1] * v[2] - u[2] * v[1] > 0

\* Insertion of index x into the index sequence s sorted by angle.  Where
\* the sort of this build is stable (tie_order = "keep") x goes behind the
\* indices of equal angle, otherwise before them.
RECURSIVE InsertByAngle(_, _, _)
InsertByAngle(vs, s, x) ==
    IF s = <<>> THEN <<x>>
    ELSE IF \/ AngleLess(vs[x], vs[s[Len(s)]])
            \/ tie_order = "reverse" /\ ~AngleLess(vs[s[Len(s)]], vs[x])
         THEN InsertByAngle(vs, SubSeq(s, 1, Len(s) - 1), x) \o <<s[Len(s)]>>
         ELSE s \o <<x>>

\* np.argsort(angles) with the default kind: an insertion sort for these
\* sizes, which keeps equal angles in their order, or a vectorised sorting
\* network, which need not; NumPy promises no order among equal keys.
RECURSIVE ArgSort(_, _)
ArgSort(vs, k) == IF k = 0 THEN <<>> ELSE InsertByAngle(vs, ArgSort(vs, k - 1), k)

\* room_detection.py _order_clockwise: pts[order][::-1].  The vectors from
\* the centroid are scaled by n to stay integral.
order_clockwise(pts) ==
    LET n == Len(pts)
        sx == SumCoord(pts, 1, n)
        sy == SumCoord(pts, 2, n)
        vs == [k \in 1..n |-> <<n * pts[k][1] - sx, n * pts[k][2] - sy>>]
        order == ArgSort(vs, n)
    IN [k \in 1..n |-> pts[order[n + 1 - k]]]

SnapTolerance == 5          \* snap_tolerance = 5

\* Squared length of the edge from vertex k to the next one.
EdgeLengths2(poly) ==
    [k \in 1..Len(poly) |-> Dist2(poly[k], poly[(k % Len(poly)) + 1])]

\* room_detection.py detect_rooms_and_overlay: the loop over the contours;
\* done is the rooms appended so far.  Edge lengths are carried as squared
\* pixel lengths, area_px in half square pixels, and area_m2 = area_px * s**2
\* as area2 * s * s in units of 1/(2 * ScaleDen^2) m^2.
RECURSIVE OverlayRoomsFrom(_, _, _, _)
OverlayRoomsFrom(cnts, i, s, done) ==
    IF i > Len(cnts) THEN done
    ELSE LET cnt == cnts[i]
         IN IF BelowMinArea(cnt) \/ cnt.peri = 0 \/ Len(cnt.approx) < 3
            THEN OverlayRoomsFrom(cnts, i + 1, s, done)
            ELSE LET approx == order_clockwise(snap_axis_aligned(cnt.approx, SnapTolerance))
                 IN OverlayRoomsFrom(cnts, i + 1, s,
                        Append(done,
                               [id               |-> Len(done),
                                polygon_px       |-> approx,
                                edge_lengths_px2 |-> EdgeLengths2(approx),
                                area_m2          |-> cnt.area2 * s * s,
                                area_px          |-> cnt.area2,
                                num_corners      |-> Len(approx)]))

\* What detect_rooms_and_overlay returns when it does not raise.
detect_rooms_and_overlay(cnts, s) ==
    LET rs == OverlayRoomsFrom(cnts, 1, s, <<>>)
    IN [rooms           |-> rs,
        image_width_px  |-> ImageShape[2],
        image_height_px |-> ImageShape[1],
        total_rooms     |-> Len(rs)]

(***************************************************************************)
(* Unified detection (unified_detection.py)                                *)
(***************************************************************************)
\* A prediction's element_data when its center is within 20 px of the room's
\* boundary.
NearRoom(room, pred) ==
    RLess(PointPolygonDistance(room.polygon_px,
                               <<pred.box[1] + pred.box[3], pred.box[2] + pred.box[4]>>),
          PxThreshold(BoundaryTolerance))

ElementData(pred, s) ==
    [position   |-> <<px_to_m(pred.box[1] + pred.box[3], 2, s),
                      px_to_m(pred.box[2] + pred.box[4], 2, s)>>,
     width      |-> px_to_m(pred.box[3] - pred.box[1], 1, s),
     height     |-> px_to_m(pred.box[4] - pred.box[2], 1, s),
     confidence |-> RoundHalfEven(pred.conf, 10)]

\* "window" is tested first here, "door" second (elif).
UnifiedIsWindow(pred) == Contains(WindowWord, Lower(pred.name))
UnifiedIsDoor(pred) == ~UnifiedIsWindow(pred) /\ Contains(DoorWord, Lower(pred.name))

RoomWindows(room, preds, s) ==
    LET kept == SelectSeq(preds, LAMBDA pr : NearRoom(room, pr) /\ UnifiedIsWindow(pr))
    IN [k \in 1..Len(kept) |-> ElementData(kept[k], s)]

RoomDoors(room, preds, s) ==
    LET kept == SelectSeq(preds, LAMBDA pr : NearRoom(room, pr) /\ UnifiedIsDoor(pr))
    IN [k \in 1..Len(kept) |-> ElementData(kept[k], s)]

RoomEntry(room, preds, s) ==
    [id      |-> <<"room_", room.id>>,
     corners |-> [k \in 1..Len(room.polygon_px) |-> point_px_to_m(room.polygon_px[k], s)],
     area_m2 |-> RoundHalfEven(room.area_m2, 2 * 1000 * 1000),
     windows |-> RoomWindows(room, preds, s),
     doors   |-> RoomDoors(room, preds, s)]

YoloWalls(preds, s) ==
    LET ws == SelectSeq(preds, LAMBDA pr : Contains(WallWord, Lower(pr.name)))
    IN [k \in 1..Len(ws) |->
           [start      |-> <<px_to_m(ws[k].box[1], 1, s), px_to_m(ws[k].box[2], 1, s)>>,
            end        |-> <<px_to_m(ws[k].box[3], 1, s), px_to_m(ws[k].box[4], 1, s)>>,
            confidence |-> RoundHalfEven(ws[k].conf, 10)]]

combine_room_and_element_detection(room_result, preds, s) ==
    [scale_m_per_px   |-> s,
     image_dimensions |-> [width_px |-> ImageShape[2], height_px |-> ImageShape[1]],
     rooms            |-> [k \in 1..Len(room_result.rooms) |->
                              RoomEntry(room_result.rooms[k], preds, s)],
     walls            |-> YoloWalls(preds, s)]

(***************************************************************************)
(* Inputs: what the external collaborators (Hough transform, contour       *)
(* tracing, the YOLO detector) can hand to the pipeline.                   *)
(***************************************************************************)
SeqsUpTo(S, n) == UNION {[1..k -> S] : k \in 0..n}

MaxHough == 2               \* Hough segments per pipeline run
MaxContours == 1            \* contours per pipeline run
MaxDets == 2                \* detector boxes per pipeline run

ScalePool == {-125, 0, 125}

ThicknessPool == {12}

HoughPool == {<<0, 0, 40, 0>>, <<0, 20, 40, 20>>, <<42, 0, 55, 0>>}

ContourPool ==
    {[area2 |-> 1600, peri |-> 120, approx |-> <<<<0, 0>>, <<40, 0>>, <<40, 20>>, <<0, 20>>>>],
     [area2 |-> 2400, peri |-> 140, approx |-> <<<<0, 50>>, <<0, 20>>, <<40, 20>>, <<40, 50>>>>],
     [area2 |-> 4, peri |-> 7, approx |-> <<<<50, 50>>, <<52, 50>>, <<50, 52>>>>]}

DetPool ==
    {[name |-> <<"D", "o", "o", "r">>, conf |-> 9125, box |-> <<16, 6, 24, 14>>],
     [name |-> <<"d", "o", "o", "r">>, conf |-> 8000, box |-> <<45, 38, 50, 45>>],
     [name |-> <<"w", "i", "n", "d", "o", "w">>, conf |-> 7555, box |-> <<10, 0, 30, 4>>],
     [name |-> <<"w", "a", "l", "l">>, conf |-> 6000, box |-> <<0, 0, 40, 2>>]}

(***************************************************************************)
(* The entry points                                                        *)
(***************************************************************************)
Idle ==
    /\ cleaned = "none" /\ wall_thickness = 0 /\ lines = <<>> /\ groups = <<>>
    /\ walls = <<>>
    /\ rooms = <<>> /\ dets = <<>> /\ doors = <<>> /\ windows = <<>>
    /\ argDoors = <<>> /\ argWindows = <<>> /\ final_json = <<>> /\ stages = <<>>
    /\ error = "" /\ contours = <<>> /\ scene = <<>> /\ tasks = <<>>
    /\ tie_order = "keep" /\ wall_px = {} /\ rooms_px = {}

\* A call of one entry point with a scale; nothing has run yet.
Init ==
    /\ pc = "call"
    /\ entry \in {"hybrid", "rooms", "unified"}
    /\ scale \in ScalePool
    /\ Idle

\* pipeline.py STEP 1: preprocess_blueprint and estimate_wall_thickness.  A
\* blank mask has no component to measure: the thickness is the fallback 12.
Preprocess ==
    /\ pc = "call" /\ entry = "hybrid"
    /\ \E m \in {"blank", "drawn"} :
          /\ cleaned' = m
          /\ wall_thickness' \in IF m = "blank" THEN {12} ELSE ThicknessPool
    /\ stages' = Append(stages, "preprocessing")
    /\ pc' = "walls"
    /\ UNCHANGED <<dets, entry, scale, lines, groups, walls, rooms, doors, windows, argDoors,
                   argWindows, final_json, error>>
    /\ UNCHANGED <<contours, scene, tie_order, wall_px, rooms_px, tasks>>

\* pipeline.py STEP 2: detect_walls.  HoughLinesP returns None (here <<>>) on
\* an edge map without lines, and always on a blank mask.
DetectWalls(pool, maxn) ==
    /\ pc = "walls"
    /\ \E ls \in (IF cleaned = "blank" THEN {<<>>} ELSE SeqsUpTo(pool, maxn)) :
          /\ lines' = ls
          /\ groups' = MergeGroups(WallLines(ls, wall_thickness))
          /\ walls' = IF ls = <<>> THEN <<>> ELSE DetectWallsFrom(ls, wall_thickness)
    /\ stages' = Append(stages, "wall_extraction")
    /\ pc' = "rooms"
    /\ UNCHANGED <<dets, entry, scale, cleaned, wall_thickness, rooms, doors, windows,
                   argDoors, argWindows, final_json, error>>
    /\ UNCHANGED <<contours, scene, tie_order, wall_px, rooms_px, tasks>>

\* pipeline.py STEP 3: detect_rooms.
DetectRooms(pool, maxn) ==
    /\ pc = "rooms"
    /\ \E cs \in (IF cleaned = "blank" THEN {<<>>} ELSE SeqsUpTo(pool, maxn)) :
          /\ contours' = cs
          /\ rooms' = detect_rooms(cs)
    /\ stages' = Append(stages, "room_extraction")
    /\ pc' = "elements"
    /\ UNCHANGED <<dets, entry, scale, cleaned, wall_thickness, lines, groups, walls, doors,
                   windows, argDoors, argWindows, final_json, error>>
    /\ UNCHANGED <<scene, tie_order, wall_px, rooms_px, tasks>>

\* pipeline.py STEP 4: detect_doors_windows on the input image.
DetectElements(pool, maxn) ==
    /\ pc = "elements"
    /\ \E ds \in SeqsUpTo(pool, maxn) :
          /\ dets' = ds
          /\ doors' = detect_doors_windows(ds).doors
          /\ windows' = detect_doors_windows(ds).windows
    /\ stages' = Append(stages, "opening_detection")
    /\ pc' = "assoc_walls"
    /\ UNCHANGED <<entry, scale, cleaned, wall_thickness, lines, groups, walls, rooms,
                   argDoors, argWindows, final_json, error>>
    /\ UNCHANGED <<contours, scene, tie_order, wall_px, rooms_px, tasks>>

\* pipeline.py STEP 5, first call: associate_elements_with_walls writes into
\* the dicts of the lists it is given and returns those lists.
AssociateWalls ==
    /\ pc = "assoc_walls"
    /\ argDoors' = doors
    /\ argWindows' = windows
    /\ doors' = WallsAssociated(doors, walls)
    /\ windows' = WallsAssociated(windows, walls)
    /\ stages' = Append(stages, "wall_association")
    /\ pc' = "assoc_rooms"
    /\ UNCHANGED <<dets, entry, scale, cleaned, wall_thickness, lines, groups, walls, rooms,
                   final_json, error>>
    /\ UNCHANGED <<contours, scene, tie_order, wall_px, rooms_px, tasks>>

\* pipeline.py STEP 5, second call: associate_elements_with_rooms.
AssociateRooms ==
    /\ pc = "assoc_rooms"
    /\ argDoors' = doors
    /\ argWindows' = windows
    /\ doors' = RoomsAssociated(doors, rooms, "connects_rooms")
    /\ windows' = RoomsAssociated(windows, rooms, "room_id")
    /\ stages' = Append(stages, "room_association")
    /\ pc' = "scale"
    /\ UNCHANGED <<dets, entry, scale, cleaned, wall_thickness, lines, groups, walls, rooms,
                   final_json, error>>
    /\ UNCHANGED <<contours, scene, tie_order, wall_px, rooms_px, tasks>>

\* A variant of STEP 6 that writes the scaled rooms and walls back into the
\* lists it was given.
ScaleConversionInPlace ==
    /\ pc = "scale"
    /\ stages' = Append(stages, "scale_conversion")
    /\ IF ScaleConversionRaises(walls)
       THEN /\ error' = "KeyError"
            /\ pc' = "raised"
            /\ UNCHANGED <<final_json, rooms, walls>>
       ELSE /\ final_json' = <<apply_scale_conversion(rooms, walls, doors, windows, scale)>>
            /\ rooms' = [k \in 1..Len(rooms) |-> RoomM(rooms[k], scale)]
            /\ walls' = [k \in 1..Len(walls) |-> WallM(walls[k], scale)]
            /\ pc' = "overlay"
            /\ UNCHANGED error
    /\ UNCHANGED <<dets, entry, scale, cleaned, wall_thickness, lines, groups,
                   doors, windows, argDoors, argWindows>>
    /\ UNCHANGED <<contours, scene, tie_order, wall_px, rooms_px, tasks>>

\* pipeline.py STEP 6: apply_scale_conversion; a KeyError ends the call.
ScaleConversion ==
    /\ pc = "scale"
    /\ stages' = Append(stages, "scale_conversion")
    /\ IF ScaleConversionRaises(walls)
       THEN /\ error' = "KeyError"
            /\ pc' = "raised"
            /\ UNCHANGED final_json
       ELSE /\ final_json' = <<apply_scale_conversion(rooms, walls, doors, windows, scale)>>
            /\ pc' = "overlay"
            /\ UNCHANGED error
    /\ UNCHANGED <<dets, entry, scale, cleaned, wall_thickness, lines, groups, walls, rooms,
                   doors, windows, argDoors, argWindows>>
    /\ UNCHANGED <<contours, scene, tie_order, wall_px, rooms_px, tasks>>

\* pipeline.py STEP 7: create_annotated_overlay reads the pixel-space lists;
\* the result is returned.
Overlay ==
    /\ pc = "overlay"
    /\ stages' = Append(stages, "visualization")
    /\ pc' = "returned"
    /\ UNCHANGED <<dets, entry, scale, cleaned, wall_thickness, lines, groups, walls, rooms,
                   doors, windows, argDoors, argWindows, final_json, error>>
    /\ UNCHANGED <<contours, scene, tie_order, wall_px, rooms_px, tasks>>

\* room_detection.py detect_rooms_and_overlay as called by /detect-rooms.
\* `cleaned` stands for its wall mask: on a mask without foreground the flood
\* fill from (0, 0) covers the whole image, so rooms_mask is empty and
\* findContours returns no contour.
DetectRoomsAndOverlay(pool, maxn) ==
    /\ pc = "call" /\ entry = "rooms"
    /\ IF scale <= 0
       THEN /\ error' = "ValueError"
            /\ pc' = "raised"
            /\ UNCHANGED <<cleaned, contours, rooms, final_json, stages>>
       ELSE /\ \E m \in {"blank", "drawn"} :
                  \E cs \in (IF m = "blank" THEN {<<>>} ELSE SeqsUpTo(pool, maxn)) :
                     /\ cleaned' = m
                     /\ contours' = cs
                     /\ final_json' = <<detect_rooms_and_overlay(cs, scale)>>
                     /\ rooms' = detect_rooms_and_overlay(cs, scale).rooms
            /\ stages' = <<"preprocessing", "wall_extraction", "room_extraction">>
            /\ pc' = "returned"
            /\ UNCHANGED error
    /\ UNCHANGED <<dets, entry, scale, wall_thickness, lines, groups, walls, doors,
                   windows, argDoors, argWindows, scene, tie_order, wall_px, rooms_px, tasks>>

\* unified_detection.py combine_room_and_element_detection: the rooms first
\* (an exception of detect_rooms_and_overlay propagates), then the detector.
CombineRoomAndElementDetection(cpool, cmax, dpool, dmax) ==
    /\ pc = "call" /\ entry = "unified"
    /\ IF scale <= 0
       THEN /\ error' = "ValueError"
            /\ pc' = "raised"
            /\ UNCHANGED <<cleaned, contours, rooms, dets, final_json, stages>>
       ELSE /\ \E m \in {"blank", "drawn"} :
                  \E cs \in (IF m = "blank" THEN {<<>>} ELSE SeqsUpTo(cpool, cmax)),
                     preds \in SeqsUpTo(dpool, dmax) :
                     /\ cleaned' = m
                     /\ contours' = cs
                     /\ rooms' = detect_rooms_and_overlay(cs, scale).rooms
                     /\ dets' = preds
                     /\ final_json' = <<combine_room_and_element_detection(
                                           detect_rooms_and_overlay(cs, scale), preds, scale)>>
            /\ stages' = <<"preprocessing", "wall_extraction", "room_extraction",
                           "opening_detection", "room_association", "scale_conversion">>
            /\ pc' = "returned"
            /\ UNCHANGED error
    /\ UNCHANGED <<entry, scale, wall_thickness, lines, groups, walls, doors,
                   windows, argDoors, argWindows, scene, tie_order, wall_px, rooms_px, tasks>>

Next ==
    \/ Preprocess
    \/ DetectWalls(HoughPool, MaxHough)
    \/ DetectRooms(ContourPool, MaxContours)
    \/ DetectElements(DetPool, MaxDets)
    \/ AssociateWalls
    \/ AssociateRooms
    \/ ScaleConversion
    \/ Overlay
    \/ DetectRoomsAndOverlay(ContourPool, MaxContours)
    \/ CombineRoomAndElementDetection(ContourPool, MaxContours, DetPool, MaxDets)

Spec == Init /\ [][Next]_vars

(***************************************************************************)
(* detect_walls on its own: the pipeline stands before STEP 2 and the      *)
(* Hough transform may return any list of segments of MergePool.           *)
(***************************************************************************)
MaxLines == 3               \* Hough segments per detect_walls run

MergePool ==
    {<<0, 0, 5, 0>>, <<6, 0, 10, 0>>, <<0, 0, 30, 0>>, <<0, 2, 30, 2>>,
     <<30, 0, 0, 0>>, <<30, 0, 60, 2>>, <<30, 0, 30, 30>>, <<60, 2, 30, 0>>}

InitMerge ==
    /\ pc = "walls" /\ entry = "hybrid" /\ scale = 125
    /\ cleaned = "drawn" /\ wall_thickness \in ThicknessPool
    /\ lines = <<>> /\ groups = <<>> /\ walls = <<>> /\ rooms = <<>>
    /\ dets = <<>> /\ doors = <<>> /\ windows = <<>> /\ argDoors = <<>>
    /\ argWindows = <<>> /\ final_json = <<>> /\ stages = <<"preprocessing">>
    /\ error = "" /\ contours = <<>> /\ scene = <<>> /\ tasks = <<>>
    /\ tie_order = "keep" /\ wall_px = {} /\ rooms_px = {}

NextMerge == DetectWalls(MergePool, MaxLines)

SpecMerge == InitMerge /\ [][NextMerge]_vars

(***************************************************************************)
(* Association on its own: the hybrid pipeline stands before STEP 5 with   *)
(* the walls, rooms and openings that STEPS 2-4 produce from the pools     *)
(* below; the unified entry point runs on the same contours and boxes.     *)
(***************************************************************************)
MaxAssocWalls == 2          \* Hough segments
MaxAssocRooms == 2          \* contours
MaxAssocDets == 1           \* detector boxes

AssocHoughPool ==
    {<<0, 0, 40, 0>>, <<0, 20, 40, 20>>, <<50, 50, 80, 90>>}

AssocContourPool ==
    {[area2 |-> 1600, peri |-> 120, approx |-> <<<<0, 0>>, <<40, 0>>, <<40, 20>>, <<0, 20>>>>],
     [area2 |-> 2400, peri |-> 140, approx |-> <<<<0, 50>>, <<0, 20>>, <<40, 20>>, <<40, 50>>>>]}

AssocDetPool ==
    {[name |-> <<"D", "o", "o", "r">>, conf |-> 9125, box |-> <<16, 6, 24, 14>>],
     [name |-> <<"d", "o", "o", "r">>, conf |-> 8000, box |-> <<18, 13, 22, 17>>],
     [name |-> <<"d", "o", "o", "r">>, conf |-> 8000, box |-> <<48, 8, 52, 12>>],
     [name |-> <<"d", "o", "o", "r">>, conf |-> 5000, box |-> <<18, 38, 22, 42>>],
     [name |-> <<"d", "o", "o", "r">>, conf |-> 5000, box |-> <<78, 78, 82, 82>>],
     [name |-> <<"w", "i", "n", "d", "o", "w">>, conf |-> 7555, box |-> <<10, 0, 30, 5>>]}

\* The hybrid pipeline's state once STEPS 1-4 ran on these inputs.
AfterElements(ls, cs, ds, s, t) ==
    /\ entry = "hybrid" /\ scale = s /\ cleaned = "drawn" /\ wall_thickness = t
    /\ lines = ls
    /\ groups = MergeGroups(WallLines(ls, t))
    /\ walls = (IF ls = <<>> THEN <<>> ELSE DetectWallsFrom(ls, t))
    /\ contours = cs
    /\ rooms = detect_rooms(cs)
    /\ dets = ds
    /\ final_json = <<>> /\ error = "" /\ scene = <<>> /\ tasks = <<>>
    /\ tie_order = "keep" /\ wall_px = {} /\ rooms_px = {}

InitAssoc ==
    \/ /\ pc = "assoc_walls"
       /\ \E ls \in SeqsUpTo(AssocHoughPool, MaxAssocWalls),
             cs \in SeqsUpTo(AssocContourPool, MaxAssocRooms),
             ds \in SeqsUpTo(AssocDetPool, MaxAssocDets) :
             /\ AfterElements(ls, cs, ds, 125, 12)
             /\ doors = detect_doors_windows(ds).doors
             /\ windows = detect_doors_windows(ds).windows
       /\ argDoors = <<>> /\ argWindows = <<>>
       /\ stages = <<"preprocessing", "wall_extraction", "room_extraction",
                     "opening_detection">>
    \/ /\ pc = "call" /\ entry = "unified" /\ scale = 125 /\ Idle

NextAssoc ==
    \/ AssociateWalls
    \/ AssociateRooms
    \/ CombineRoomAndElementDetection(AssocContourPool, MaxAssocRooms,
                                      AssocDetPool, MaxAssocDets)

SpecAssoc == InitAssoc /\ [][NextAssoc]_vars

(***************************************************************************)
(* Scale conversion on its own: the hybrid pipeline stands before STEP 6.  *)
(***************************************************************************)
MaxScaleRooms == 2          \* contours
MaxScaleWalls == 1          \* Hough segments
MaxScaleDets == 1           \* detector boxes

ConvScalePool == {1, 125, 333, 10000}

ConvContourPool ==
    {[area2 |-> 40, peri |-> 18, approx |-> <<<<0, 0>>, <<4, 0>>, <<4, 5>>, <<0, 5>>>>],
     [area2 |-> 27, peri |-> 21, approx |-> <<<<0, 0>>, <<9, 0>>, <<0, 3>>>>],
     [area2 |-> 28, peri |-> 18, approx |-> <<<<10, 10>>, <<17, 10>>, <<17, 12>>, <<10, 12>>>>]}

ConvHoughPool == {<<0, 0, 5, 0>>, <<0, 5, 4, 5>>}

ConvDetPool ==
    {[name |-> <<"D", "o", "o", "r">>, conf |-> 9125, box |-> <<1, 0, 4, 2>>],
     [name |-> <<"w", "i", "n", "d", "o", "w">>, conf |-> 7555, box |-> <<30, 30, 35, 41>>]}

InitScale ==
    /\ pc = "scale"
    /\ \E ls \in SeqsUpTo(ConvHoughPool, MaxScaleWalls),
          cs \in SeqsUpTo(ConvContourPool, MaxScaleRooms),
          ds \in SeqsUpTo(ConvDetPool, MaxScaleDets),
          s \in ConvScalePool :
          /\ AfterElements(ls, cs, ds, s, 12)
          /\ argDoors = WallsAssociated(detect_doors_windows(ds).doors, walls)
          /\ argWindows = WallsAssociated(detect_doors_windows(ds).windows, walls)
          /\ doors = RoomsAssociated(argDoors, rooms, "connects_rooms")
          /\ windows = RoomsAssociated(argWindows, rooms, "room_id")
    /\ stages = <<"preprocessing", "wall_extraction", "room_extraction",
                  "opening_detection", "wall_association", "room_association">>

NextScale ==
    \/ ScaleConversion
    \/ Overlay

SpecScale == InitScale /\ [][NextScale]_vars

(***************************************************************************)
(* Room extraction on its own: the hybrid pipeline stands before STEP 3,   *)
(* or /detect-rooms is called; findContours may return any list of         *)
(* contours of RoomContourPool.  The 4-vertex polygons and the triangle    *)
(* have a centroid that float32 holds exactly.                             *)
(***************************************************************************)
MaxRoomContours == 3        \* contours per room-detection run

RoomContourPool ==
    {[area2 |-> 1600, peri |-> 120, approx |-> <<<<0, 0>>, <<40, 0>>, <<40, 20>>, <<0, 20>>>>],
     [area2 |-> 1640, peri |-> 122, approx |-> <<<<0, 0>>, <<40, 1>>, <<41, 20>>, <<1, 21>>>>],
     [area2 |-> 800, peri |-> 113, approx |-> <<<<0, 0>>, <<20, 20>>, <<40, 0>>, <<20, 40>>>>],
     [area2 |-> 900, peri |-> 102, approx |-> <<<<0, 0>>, <<30, 0>>, <<0, 30>>>>],
     [area2 |-> 4, peri |-> 7, approx |-> <<<<50, 50>>, <<52, 50>>, <<50, 52>>>>],
     [area2 |-> 98, peri |-> 100, approx |-> <<<<5, 55>>, <<55, 55>>>>]}

InitRooms ==
    /\ scale = 125 /\ wall_thickness = 0 /\ lines = <<>> /\ groups = <<>>
    /\ walls = <<>> /\ rooms = <<>> /\ dets = <<>> /\ doors = <<>> /\ windows = <<>>
    /\ argDoors = <<>> /\ argWindows = <<>> /\ final_json = <<>> /\ error = ""
    /\ contours = <<>> /\ scene = <<>> /\ tasks = <<>>
    /\ tie_order \in {"keep", "reverse"} /\ wall_px = {} /\ rooms_px = {}
    /\ \/ /\ entry = "hybrid" /\ pc = "rooms" /\ cleaned = "drawn"
          /\ stages = <<"preprocessing", "wall_extraction">>
       \/ /\ entry = "rooms" /\ pc = "call" /\ cleaned = "none" /\ stages = <<>>

NextRooms ==
    \/ DetectRooms(RoomContourPool, MaxRoomContours)
    \/ DetectRoomsAndOverlay(RoomContourPool, MaxRoomContours)

SpecRooms == InitRooms /\ [][NextRooms]_vars

(***************************************************************************)
(* Opening detection on its own: the hybrid pipeline stands before STEP 4  *)
(* (here after a blank mask) and the detector may report any list of boxes *)
(* with the labels of LabelPool.                                           *)
(***************************************************************************)
MaxLabelDets == 3           \* detector boxes per run

LabelPool ==
    {[name |-> <<"D", "o", "o", "r">>, conf |-> 9125, box |-> <<16, 6, 24, 14>>],
     [name |-> <<"S", "l", "i", "d", "i", "n", "g", " ", "D", "o", "o", "r">>,
      conf |-> 8000, box |-> <<45, 38, 50, 45>>],
     [name |-> <<"W", "I", "N", "D", "O", "W">>, conf |-> 7555, box |-> <<10, 0, 30, 4>>],
     [name |-> <<"w", "i", "n", "d", "o", "w">>, conf |-> 7000, box |-> <<60, 0, 80, 4>>],
     [name |-> <<"D", "o", "o", "r", "/", "W", "i", "n", "d", "o", "w">>,
      conf |-> 6500, box |-> <<70, 70, 80, 90>>],
     [name |-> <<"W", "a", "l", "l">>, conf |-> 6000, box |-> <<0, 0, 40, 2>>],
     [name |-> <<"C", "o", "l", "u", "m", "n">>, conf |-> 5000, box |-> <<90, 90, 95, 95>>]}

InitDetect ==
    /\ pc = "elements" /\ entry = "hybrid" /\ scale = 125
    /\ cleaned = "blank" /\ wall_thickness = 12
    /\ lines = <<>> /\ groups = <<>> /\ walls = <<>> /\ rooms = <<>>
    /\ dets = <<>> /\ doors = <<>> /\ windows = <<>> /\ argDoors = <<>>
    /\ argWindows = <<>> /\ final_json = <<>> /\ error = ""
    /\ stages = <<"preprocessing", "wall_extraction", "room_extraction">>
    /\ contours = <<>> /\ scene = <<>> /\ tasks = <<>>
    /\ tie_order = "keep" /\ wall_px = {} /\ rooms_px = {}

NextDetect == DetectElements(LabelPool, MaxLabelDets)

SpecDetect == InitDetect /\ [][NextDetect]_vars

(***************************************************************************)
(* STEPS 2 and 3 as two tasks on the one preprocessed mask.  `scene` is    *)
(* the content of preprocessed['cleaned']: the segments the Hough          *)
(* transform finds on its edge map and the contours traced on it.  Each    *)
(* task advances by the calls detect_walls / detect_rooms make, in any     *)
(* interleaving; pipeline.py runs the walls task to its end first.         *)
(***************************************************************************)
MaxParLines == 2            \* Hough segments on the mask
MaxParContours == 2         \* contours on the mask

\* cv2.Canny(cleaned, 50, 150): a new edge map, here the segments on it.
Canny(img) == img.segs

\* cv2.HoughLinesP(edges, ...): the segments of the edge map (None as <<>>).
HoughLinesP(edges) == edges

\* A variant of findContours that traces in place and leaves the image
\* cleared (OpenCV before 3.2).
FindContoursInPlace(img) ==
    [image |-> [segs |-> <<>>, cnts |-> <<>>], contours |-> img.cnts]

\* cv2.findContours(cleaned, RETR_EXTERNAL, CHAIN_APPROX_SIMPLE): the image
\* after the call (the source is not modified) and the contours returned.
FindContours(img) == [image |-> img, contours |-> img.cnts]

InitPar ==
    /\ pc = "par" /\ entry = "hybrid" /\ scale = 125 /\ wall_thickness = 12
    /\ \E ls \in SeqsUpTo(HoughPool, MaxParLines),
          cs \in SeqsUpTo(ContourPool, MaxParContours) :
          /\ scene = [segs |-> ls, cnts |-> cs]
          /\ cleaned = (IF ls = <<>> /\ cs = <<>> THEN "blank" ELSE "drawn")
    /\ tasks = [walls |-> "canny", rooms |-> "contours", edges |-> <<>>]
    /\ tie_order = "keep" /\ wall_px = {} /\ rooms_px = {}
    /\ lines = <<>> /\ groups = <<>> /\ walls = <<>> /\ rooms = <<>>
    /\ dets = <<>> /\ doors = <<>> /\ windows = <<>> /\ argDoors = <<>>
    /\ argWindows = <<>> /\ final_json = <<>> /\ error = "" /\ contours = <<>>
    /\ stages = <<"preprocessing">>

\* detect_walls: edges = cv2.Canny(cleaned, ...)
WallsCanny ==
    /\ pc = "par" /\ tasks.walls = "canny"
    /\ tasks' = [tasks EXCEPT !.walls = "hough", !.edges = Canny(scene)]
    /\ UNCHANGED <<pc, entry, scale, cleaned, wall_thickness, lines, groups, walls, rooms,
                   dets, doors, windows, argDoors, argWindows, final_json, stages, error,
                   contours, scene, tie_order, wall_px, rooms_px>>

\* detect_walls: lines = cv2.HoughLinesP(edges, ...)
WallsHough ==
    /\ pc = "par" /\ tasks.walls = "hough"
    /\ lines' = HoughLinesP(tasks.edges)
    /\ tasks' = [tasks EXCEPT !.walls = "merge"]
    /\ UNCHANGED <<pc, entry, scale, cleaned, wall_thickness, groups, walls, rooms,
                   dets, doors, windows, argDoors, argWindows, final_json, stages, error,
                   contours, scene, tie_order, wall_px, rooms_px>>

\* detect_walls: the None test, wall_lines and merge_collinear_lines.
WallsMerge ==
    /\ pc = "par" /\ tasks.walls = "merge"
    /\ groups' = MergeGroups(WallLines(lines, wall_thickness))
    /\ walls' = (IF lines = <<>> THEN <<>> ELSE DetectWallsFrom(lines, wall_thickness))
    /\ stages' = Append(stages, "wall_extraction")
    /\ tasks' = [tasks EXCEPT !.walls = "done"]
    /\ UNCHANGED <<pc, entry, scale, cleaned, wall_thickness, lines, rooms,
                   dets, doors, windows, argDoors, argWindows, final_json, error,
                   contours, scene, tie_order, wall_px, rooms_px>>

\* detect_rooms: contours, _ = cv2.findContours(cleaned, ...)
RoomsContours ==
    /\ pc = "par" /\ tasks.rooms = "contours"
    /\ contours' = FindContours(scene).contours
    /\ scene' = FindContours(scene).image
    /\ tasks' = [tasks EXCEPT !.rooms = "loop"]
    /\ UNCHANGED <<pc, entry, scale, cleaned, wall_thickness, lines, groups, walls, rooms,
                   dets, doors, windows, argDoors, argWindows, final_json, stages, error>>
    /\ UNCHANGED <<tie_order, wall_px, rooms_px>>

\* detect_rooms: the loop over the contours.
RoomsLoop ==
    /\ pc = "par" /\ tasks.rooms = "loop"
    /\ rooms' = detect_rooms(contours)
    /\ stages' = Append(stages, "room_extraction")
    /\ tasks' = [tasks EXCEPT !.rooms = "done"]
    /\ UNCHANGED <<pc, entry, scale, cleaned, wall_thickness, lines, groups, walls,
                   dets, doors, windows, argDoors, argWindows, final_json, error,
                   contours, scene, tie_order, wall_px, rooms_px>>

\* Both tasks returned: the pipeline goes on to STEP 4.
Join ==
    /\ pc = "par" /\ tasks.walls = "done" /\ tasks.rooms = "done"
    /\ pc' = "elements"
    /\ UNCHANGED <<entry, scale, cleaned, wall_thickness, lines, groups, walls, rooms,
                   dets, doors, windows, argDoors, argWindows, final_json, stages, error,
                   contours, scene, tie_order, wall_px, rooms_px, tasks>>

NextPar ==
    \/ WallsCanny
    \/ WallsHough
    \/ WallsMerge
    \/ RoomsContours
    \/ RoomsLoop
    \/ Join

SpecPar == InitPar /\ [][NextPar]_vars

(***************************************************************************)
(* hybrid_floor_plan_analysis on its own, from the call to the return.     *)
(***************************************************************************)
MaxFlowLines == 1           \* Hough segments
MaxFlowContours == 1        \* contours
MaxFlowDets == 1            \* detector boxes

FlowScalePool == {125, 333}

InitFlow ==
    /\ pc = "call"
    /\ entry = "hybrid"
    /\ scale \in FlowScalePool
    /\ Idle

NextFlow ==
    \/ Preprocess
    \/ DetectWalls(HoughPool, MaxFlowLines)
    \/ DetectRooms(ContourPool, MaxFlowContours)
    \/ DetectElements(DetPool, MaxFlowDets)
    \/ AssociateWalls
    \/ AssociateRooms
    \/ ScaleConversion
    \/ Overlay

SpecFlow == InitFlow /\ [][NextFlow]_vars

(***************************************************************************)
(* The mask handed to cv2.findContours, pixel by pixel.  The wall mask is   *)
(* a set of cells of a coarse grid; a cell stands for a square block of     *)
(* pixels no smaller than the structuring elements, so that the closing,    *)
(* dilation and opening leave blocks as blocks and every set of cells is a  *)
(* wall mask that STEPS 2-5 can produce.  A pixel is <<x, y>>.              *)
(***************************************************************************)
GridShape == <<3, 4>>       \* h, w = walls.shape

Grid == (0..(GridShape[2] - 1)) \X (0..(GridShape[1] - 1))

\* The neighbours cv2.floodFill visits with its default flags (connectivity 4).
Adjacent4(p, q) == Abs(p[1] - q[1]) + Abs(p[2] - q[2]) = 1

\* The pixels of allowed that region reaches through neighbours in allowed.
RECURSIVE Grow(_, _)
Grow(region, allowed) ==
    LET next == region \cup {p \in allowed : \E q \in region : Adjacent4(p, q)}
    IN IF next = region THEN region ELSE Grow(next, allowed)

\* cv2.floodFill(mask, ff_mask, seed, 255) with loDiff = upDiff = 0: the
\* pixels connected to the seed that have the seed's value become 255.
\* white is the set of pixels that are 255; the result is that set after
\* the fill.
FloodFill(white, seed) ==
    LET same == IF seed \in white THEN white ELSE Grid \ white
    IN white \cup Grow({seed}, same)

\* detect_rooms_and_overlay Steps 6 and 7: mask = walls.copy(), flood fill
\* from (0, 0), rooms_mask = ~mask & ~walls.
OverlayRoomsMask(walls_mask) ==
    LET mask == FloodFill(walls_mask, <<0, 0>>)
    IN (Grid \ mask) \cap (Grid \ walls_mask)

\* hybrid detect_rooms: cv2.findContours runs on preprocessed['cleaned'],
\* the wall mask as it is.
HybridRoomsMask(cleaned_mask) == cleaned_mask

InitFlood ==
    /\ pc = "mask"
    /\ entry \in {"rooms", "hybrid"}
    /\ scale = 125
    /\ wall_px \in SUBSET Grid
    /\ rooms_px = {}
    /\ cleaned = (IF wall_px = {} THEN "blank" ELSE "drawn")
    /\ wall_thickness = 12 /\ lines = <<>> /\ groups = <<>> /\ walls = <<>>
    /\ rooms = <<>> /\ dets = <<>> /\ doors = <<>> /\ windows = <<>>
    /\ argDoors = <<>> /\ argWindows = <<>> /\ final_json = <<>> /\ stages = <<>>
    /\ error = "" /\ contours = <<>> /\ scene = <<>> /\ tasks = <<>>
    /\ tie_order = "keep"

\* detect_rooms_and_overlay up to the call of cv2.findContours.
FloodRoomsMask ==
    /\ pc = "mask" /\ entry = "rooms"
    /\ rooms_px' = OverlayRoomsMask(wall_px)
    /\ pc' = "contours"
    /\ UNCHANGED <<entry, scale, cleaned, wall_thickness, lines, groups, walls, rooms, dets,
                   doors, windows, argDoors, argWindows, final_json, stages, error>>
    /\ UNCHANGED <<contours, scene, tasks, tie_order, wall_px>>

\* hybrid detect_rooms up to the call of cv2.findContours.
CleanedRoomsMask ==
    /\ pc = "mask" /\ entry = "hybrid"
    /\ rooms_px' = HybridRoomsMask(wall_px)
    /\ pc' = "contours"
    /\ UNCHANGED <<entry, scale, cleaned, wall_thickness, lines, groups, walls, rooms, dets,
                   doors, windows, argDoors, argWindows, final_json, stages, error>>
    /\ UNCHANGED <<contours, scene, tasks, tie_order, wall_px>>

NextFlood ==
    \/ FloodRoomsMask
    \/ CleanedRoomsMask

SpecFlood == InitFlood /\ [][NextFlood]_vars

(***************************************************************************)
(* Properties                                                              *)
(***************************************************************************)
WallsDetected == "wall_extraction" \in Range(stages)

\* The wall_lines that detect_walls handed to merge_collinear_lines.
wall_lines == WallLines(lines, wall_thickness)

\* The members of the groups formed before group g.
UsedBefore(g) == UNION {Range(groups[h]) : h \in 1..(g - 1)}

\* C3 (as specified): every wall that detect_walls returns carries thickness_px,
\* and scale conversion never fails on a wall list of detect_walls.
C3_EveryWallHasThickness ==
    /\ WallsDetected => \A k \in 1..Len(walls) : HasKey(walls[k], "thickness_px")
    /\ error /= "KeyError"

\* Some endpoint of line1 is within the distance threshold of some endpoint of
\* line2 (start-start, start-end, end-start or end-end).
AnyEndpointsClose(line1, line2) ==
    \E p \in {line1.start, line1.end}, q \in {line2.start, line2.end} :
        Dist2(p, q) < DistanceThreshold * DistanceThreshold

\* C9 (as specified): a segment that is not yet used when the group of segment i
\* is formed joins that group whenever the angles differ by less than 5
\* degrees and any endpoint of one is within 20 px of any endpoint of the other.
C9_JoinsOnAnyEndpointPair ==
    WallsDetected =>
        \A g \in 1..Len(groups) : \A j \in 1..Len(wall_lines) :
            LET i == groups[g][1]
            IN (/\ j > i
                /\ j \notin UsedBefore(g)
                /\ Abs(wall_lines[i].angle - wall_lines[j].angle) < AngleThreshold
                /\ AnyEndpointsClose(wall_lines[i], wall_lines[j]))
               => j \in Range(groups[g])

\* The start and end points of the members of group g.
GroupPoints(g) ==
    UNION {{wall_lines[groups[g][m]].start, wall_lines[groups[g][m]].end} :
              m \in 1..Len(groups[g])}

\* C10: a group of two or more segments becomes one segment between two
\* endpoints of the group that are farthest apart, with the angle of the
\* group's first member and the distance of the new endpoints as length;
\* (0,0)-(5,0) and (6,0)-(10,0) merge into exactly (0,0)-(10,0).
C10_GroupCollapses ==
    WallsDetected =>
        /\ Len(walls) = Len(groups)
        /\ \A g \in 1..Len(groups) :
              Len(groups[g]) >= 2 =>
                 /\ walls[g].start \in GroupPoints(g)
                 /\ walls[g].end \in GroupPoints(g)
                 /\ \A p \in GroupPoints(g), q \in GroupPoints(g) :
                       Dist2(p, q) <= Dist2(walls[g].start, walls[g].end)
                 /\ walls[g].angle = wall_lines[groups[g][1]].angle
                 /\ walls[g].length = <<"sqrt", Dist2(walls[g].start, walls[g].end)>>
        /\ lines = <<<<0, 0, 5, 0>>, <<6, 0, 10, 0>>>> =>
              /\ Len(walls) = 1
              /\ walls[1].start = <<0, 0>>
              /\ walls[1].end = <<10, 0>>

\* A group of three segments, given out of order, was collapsed.
C10_Witness ==
    /\ WallsDetected
    /\ \E g \in 1..Len(groups) :
          /\ Len(groups[g]) = 3
          /\ walls[g].start /= wall_lines[groups[g][1]].start

Ran(stage) == stage \in Range(stages)

\* The hybrid pipeline holds an exported result.
Exported == entry = "hybrid" /\ final_json /= <<>>

\* C1 (as specified): the exported area_m2 of every room is area_px * s * s
\* exactly (area_m2 is in units of 1e-7 m^2, s in 1e-4 m/px).
C1_AreaIsExact ==
    (Exported /\ scale > 0) =>
        \A k \in 1..Len(rooms) :
            10 * final_json[1].rooms[k].area_m2 = rooms[k].area_px * scale * scale

\* C2 (as specified): with a scale <= 0 no stage ever runs and nothing is
\* returned: the call is still to begin or has raised.
C2_NonPositiveScaleRejected ==
    scale <= 0 =>
        /\ stages = <<>>
        /\ final_json = <<>>
        /\ pc \in {"call", "raised"}

\* C4 (as specified): after either association call the lists it was given, and
\* each of their elements, are what they were when the call began.
C4_InputsUnchanged ==
    (Ran("wall_association") /\ pc \in {"assoc_rooms", "scale"}) =>
        /\ doors = argDoors
        /\ windows = argWindows

\* Squared distance from an opening's center to wall i, in (half-pixel)^2.
WallDist(elem, i) == point_to_line_distance(elem.center, walls[i].start, walls[i].end)

SomeWallInTolerance(elem) ==
    \E i \in 1..Len(walls) : RLess(WallDist(elem, i), PxThreshold(MaxDistance))

\* Room i has an edge within the boundary tolerance of the opening's center.
RoomInTolerance(elem, i) ==
    \E k \in 1..Len(rooms[i].polygon) :
        RLess(point_to_line_distance(elem.center, rooms[i].polygon[k],
                                     rooms[i].polygon[(k % Len(rooms[i].polygon)) + 1]),
              PxThreshold(BoundaryTolerance))

SomeRoomInTolerance(elem) == \E i \in 1..Len(rooms) : RoomInTolerance(elem, i)

\* C5: an exported door or window carries nearest_wall_id exactly when some
\* wall is closer than 15 px to its center, and connects_rooms / room_id
\* exactly when some room is within the boundary tolerance; the export fails
\* only on a wall without thickness_px, never on an opening.
C5_OptionalLinkFields ==
    /\ Exported =>
          /\ \A k \in 1..Len(doors) :
                /\ HasKey(final_json[1].doors[k], "nearest_wall_id")
                      <=> SomeWallInTolerance(doors[k])
                /\ HasKey(final_json[1].doors[k], "connects_rooms")
                      <=> SomeRoomInTolerance(doors[k])
          /\ \A k \in 1..Len(windows) :
                /\ HasKey(final_json[1].windows[k], "nearest_wall_id")
                      <=> SomeWallInTolerance(windows[k])
                /\ HasKey(final_json[1].windows[k], "room_id")
                      <=> SomeRoomInTolerance(windows[k])
    /\ (entry = "hybrid" /\ Ran("scale_conversion")) =>
          (final_json /= <<>> \/ ScaleConversionRaises(walls))

\* A returned export in which one door is linked to wall 0 and another door
\* has neither a wall nor a room in tolerance.
C5_Witness ==
    /\ Exported /\ pc = "returned"
    /\ \E k \in 1..Len(doors) :
          /\ HasKey(final_json[1].doors[k], "nearest_wall_id")
          /\ final_json[1].doors[k].nearest_wall_id = 0
    /\ \E k \in 1..Len(doors) :
          /\ ~SomeWallInTolerance(doors[k])
          /\ ~SomeRoomInTolerance(doors[k])
          /\ ~HasKey(final_json[1].doors[k], "nearest_wall_id")
          /\ ~HasKey(final_json[1].doors[k], "connects_rooms")

\* nearest_wall_id (0-based, -1 for none) is right for this opening.
NearestWallRight(elem) ==
    LET id == elem.nearest_wall_id
    IN /\ id \in -1..(Len(walls) - 1)
       /\ id = -1 => ~SomeWallInTolerance(elem)
       /\ id >= 0 =>
             /\ RLess(WallDist(elem, id + 1), PxThreshold(MaxDistance))
             /\ \A j \in 1..Len(walls) : ~RLess(WallDist(elem, j), WallDist(elem, id + 1))
             /\ \A j \in 1..id : RLess(WallDist(elem, id + 1), WallDist(elem, j))

\* C6: the nearest_wall_id of every opening is the lowest index of a wall at
\* minimal distance from its center, assigned only if that distance is
\* strictly below 15 px, and -1 otherwise (an empty wall list included).
C6_NearestWall ==
    (entry = "hybrid" /\ Ran("wall_association")) =>
        /\ \A k \in 1..Len(doors) : NearestWallRight(doors[k])
        /\ \A k \in 1..Len(windows) : NearestWallRight(windows[k])

\* Two walls tie for the minimum and the lower index was assigned.
C6_Witness ==
    /\ entry = "hybrid" /\ Ran("wall_association")
    /\ \E k \in 1..Len(doors) :
          /\ Len(walls) >= 2
          /\ doors[k].nearest_wall_id = 0
          /\ WallDist(doors[k], 1) = WallDist(doors[k], 2)

\* An opening whose only wall is at exactly 15 px stays unassigned.
C6_WitnessBoundary ==
    /\ entry = "hybrid" /\ Ran("wall_association")
    /\ \E k \in 1..Len(doors) :
          /\ Len(walls) = 1
          /\ WallDist(doors[k], 1) = PxThreshold(MaxDistance)
          /\ doors[k].nearest_wall_id = -1

\* The positions of the rooms within tolerance of the opening.
RoomsInTolerance(elem) == {i \in 1..Len(rooms) : RoomInTolerance(elem, i)}

\* ids lists the ids of exactly the rooms in tolerance, in room-list order.
ConnectedRight(elem, ids) ==
    /\ Len(ids) = Cardinality(RoomsInTolerance(elem))
    /\ \A m \in 1..Len(ids) :
          \E i \in RoomsInTolerance(elem) :
              /\ ids[m] = rooms[i].id
              /\ Cardinality({j \in RoomsInTolerance(elem) : j < i}) = m - 1

C7_WitnessBoundary ==
    /\ entry = "hybrid" /\ Ran("room_association")
    /\ \E k \in 1..Len(doors) : \E i \in 1..Len(rooms) :
          /\ PointPolygonDistance(rooms[i].polygon, doors[k].center)
                = PxThreshold(BoundaryTolerance)
          /\ doors[k].connects_rooms = <<>>

\* The distance from point c (half-pixels) to the closest point of the
\* segment a-b (pixels), squared: to an endpoint when the projection falls
\* outside the segment, else to the line.
SegmentDistance(c, a, b) ==
    LET ax == 2 * a[1]
        ay == 2 * a[2]
        bx == 2 * b[1]
        by == 2 * b[2]
        dot == (c[1] - ax) * (bx - ax) + (c[2] - ay) * (by - ay)
        len2 == (bx - ax) * (bx - ax) + (by - ay) * (by - ay)
        cross == (c[1] - ax) * (by - ay) - (c[2] - ay) * (bx - ax)
    IN IF dot <= 0 THEN RInt(Dist2(c, <<ax, ay>>))
       ELSE IF dot >= len2 THEN RInt(Dist2(c, <<bx, by>>))
       ELSE Rat(cross * cross, len2)

\* The centers of the detected openings.
Centers == {doors[k].center : k \in 1..Len(doors)} \cup {windows[k].center : k \in 1..Len(windows)}

\* C8: point_to_line_distance is the distance to the closest point of the
\* finite segment; a zero-length segment gives the distance to its point; for
\* (0,0)-(10,0) the point (5,5) gives 5 and the point (-3,0) gives 3.
C8_PointToSegment ==
    /\ \A c \in Centers : \A i \in 1..Len(walls) :
          /\ point_to_line_distance(c, walls[i].start, walls[i].end)
                = SegmentDistance(c, walls[i].start, walls[i].end)
          /\ point_to_line_distance(c, walls[i].end, walls[i].end)
                = RInt(Dist2(c, <<2 * walls[i].end[1], 2 * walls[i].end[2]>>))
    /\ Centers /= {} =>
          /\ point_to_line_distance(<<10, 10>>, <<0, 0>>, <<10, 0>>) = RInt(4 * 5 * 5)
          /\ point_to_line_distance(<<-6, 0>>, <<0, 0>>, <<10, 0>>) = RInt(4 * 3 * 3)

\* An opening whose projection on some wall falls beyond an endpoint, and an
\* opening whose projection falls strictly inside a slanted wall.
C8_Witness ==
    /\ Ran("wall_association")
    /\ \E c \in Centers : \E i \in 1..Len(walls) :
          (c[1] - 2 * walls[i].start[1]) * (walls[i].end[1] - walls[i].start[1])
            + (c[2] - 2 * walls[i].start[2]) * (walls[i].end[2] - walls[i].start[2])
          > 2 * Dist2(walls[i].start, walls[i].end)
    /\ \E c \in Centers : \E i \in 1..Len(walls) :
          LET dot2 == (c[1] - 2 * walls[i].start[1]) * (walls[i].end[1] - walls[i].start[1])
                        + (c[2] - 2 * walls[i].start[2]) * (walls[i].end[2] - walls[i].start[2])
          IN /\ walls[i].start[1] /= walls[i].end[1]
             /\ walls[i].start[2] /= walls[i].end[2]
             /\ 0 < dot2 /\ dot2 < 2 * Dist2(walls[i].start, walls[i].end)
             /\ point_to_line_distance(c, walls[i].start, walls[i].end).n > 0

\* room detection has returned its rooms.
RoomsDetected == Ran("room_extraction")

\* The vertex lists that reached _snap_axis_aligned in this run.
SnapInputs ==
    {contours[k].approx : k \in {i \in 1..Len(contours) :
        ~BelowMinArea(contours[i]) /\ contours[i].peri /= 0 /\ Len(contours[i].approx) >= 3}}

\* Vertices whose coordinate c was closer than tol have the same coordinate
\* c in the snapped list.
SnappedTogether(pts, snapped, tol, c) ==
    \A i \in 1..Len(pts), j \in 1..Len(pts) :
        Abs(pts[i][c] - pts[j][c]) < tol => snapped[i][c] = snapped[j][c]

\* C11 (as specified): after _snap_axis_aligned, two vertices whose x differed
\* by less than tol share their x, and two whose y differed by less than tol
\* share their y.
C11_SnapEqualises ==
    (entry = "rooms" /\ RoomsDetected) =>
        \A pts \in SnapInputs :
            /\ SnappedTogether(pts, snap_axis_aligned(pts, SnapTolerance), SnapTolerance, 1)
            /\ SnappedTogether(pts, snap_axis_aligned(pts, SnapTolerance), SnapTolerance, 2)

\* C12 (as specified): _order_clockwise returns its own output unchanged, for
\* the vertex lists it is given in a run and for the polygons it returned.
C12_OrderIdempotent ==
    (entry = "rooms" /\ RoomsDetected) =>
        /\ \A pts \in SnapInputs :
              order_clockwise(order_clockwise(pts)) = order_clockwise(pts)
        /\ \A k \in 1..Len(rooms) :
              order_clockwise(rooms[k].polygon_px) = rooms[k].polygon_px

\* A contour that room detection retains: large enough, with a perimeter
\* and at least 3 vertices after simplification.
Retained(cnt) ==
    /\ 1000 * cnt.area2 >= 2 * ImageShape[1] * ImageShape[2]
    /\ Len(cnt.approx) >= 3

RetainedContours == SelectSeq(contours, Retained)

\* The vertex list of a returned room.
RoomPolygon(room) == IF entry = "hybrid" THEN room.polygon ELSE room.polygon_px

\* C18: the rooms of a run are the retained contours in discovery order with
\* the ids 0, 1, 2, ...; a contour below the area threshold or with fewer
\* than 3 vertices is left out without error and takes no id; num_corners is
\* the number of vertices, at least 3.
C18_RoomIds ==
    RoomsDetected =>
        /\ error = ""
        /\ Len(rooms) = Len(RetainedContours)
        /\ \A k \in 1..Len(rooms) :
              /\ rooms[k].id = k - 1
              /\ Len(RoomPolygon(rooms[k])) = Len(RetainedContours[k].approx)
              /\ rooms[k].area_px =
                    (IF entry = "hybrid" THEN RetainedContours[k].area2 \div 2
                                         ELSE RetainedContours[k].area2)
              /\ rooms[k].num_corners = Len(RoomPolygon(rooms[k]))
              /\ rooms[k].num_corners >= 3
        /\ \A k \in 1..Len(rooms), m \in 1..Len(rooms) :
              k /= m => rooms[k].id /= rooms[m].id

\* A contour was dropped between two retained ones, in either detector.
C18_Witness ==
    /\ RoomsDetected
    /\ Len(contours) = 3 /\ Len(rooms) = 2
    /\ ~Retained(contours[2])
    /\ rooms[2].id = 1

\* e (in mm) is a nearest multiple of 0.001 m to (vnum / vden) px times the
\* scale: the pixel value was multiplied by the scale once, then rounded.
ScaledOnce(e, vnum, vden) ==
    2 * Abs(e * vden * (ScaleDen \div 1000) - vnum * scale) <= vden * (ScaleDen \div 1000)

PointScaledOnce(pm, pt, vden) ==
    ScaledOnce(pm[1], pt[1], vden) /\ ScaledOnce(pm[2], pt[2], vden)

OpeningScaledOnce(em, elem) ==
    /\ PointScaledOnce(em.position, elem.center, 2)
    /\ ScaledOnce(em.width_m, elem.width, 1)
    /\ ScaledOnce(em.height_m, elem.height, 1)
    /\ em.orientation = elem.orientation
    /\ em.confidence = elem.confidence
    /\ em.type = elem.type

\* C13: every linear pixel quantity of the export (polygon coordinates, wall
\* start, end, thickness and length, opening position, width and height) is
\* the pixel value times the scale, rounded; ids, corner counts, angles,
\* orientation, confidence and type are passed through unchanged.
C13_LinearScaledOnce ==
    Exported =>
        /\ \A k \in 1..Len(rooms) :
              /\ \A i \in 1..Len(rooms[k].polygon) :
                    PointScaledOnce(final_json[1].rooms[k].polygon[i], rooms[k].polygon[i], 1)
              /\ Len(final_json[1].rooms[k].polygon) = Len(rooms[k].polygon)
              /\ final_json[1].rooms[k].id = rooms[k].id
              /\ final_json[1].rooms[k].num_corners = rooms[k].num_corners
        /\ \A k \in 1..Len(walls) :
              /\ PointScaledOnce(final_json[1].walls[k].start, walls[k].start, 1)
              /\ PointScaledOnce(final_json[1].walls[k].end, walls[k].end, 1)
              /\ ScaledOnce(final_json[1].walls[k].thickness_m, walls[k].thickness_px, 1)
              /\ ScaledOnce(final_json[1].walls[k].length_m, walls[k].length[2], 100)
              /\ final_json[1].walls[k].angle = walls[k].angle
        /\ \A k \in 1..Len(doors) : OpeningScaledOnce(final_json[1].doors[k], doors[k])
        /\ \A k \in 1..Len(windows) : OpeningScaledOnce(final_json[1].windows[k], windows[k])

\* An export with a room, a wall and an opening at a scale other than 1.
C13_Witness ==
    /\ Exported /\ scale = 333
    /\ Len(rooms) >= 1 /\ Len(walls) >= 1 /\ Len(doors) + Len(windows) >= 1

\* C14 (as specified): every measurement of the export is a multiple of
\* 0.001.  Linear fields are carried in mm; area_m2 is carried in 1e-7 m^2,
\* of which ScaleDen make 0.001 m^2.
C14_ThreeDecimals ==
    Exported =>
        \A k \in 1..Len(rooms) : final_json[1].rooms[k].area_m2 % ScaleDen = 0

\* C15: at the scale 1 (ScaleDen units) the exported area_m2 of every room is
\* its area_px.
C15_IdentityScaleArea ==
    (Exported /\ scale = ScaleDen) =>
        \A k \in 1..Len(rooms) :
            final_json[1].rooms[k].area_m2 = rooms[k].area_px * 1000 * ScaleDen

\* Two rooms were exported at the scale 1.
C15_Witness ==
    /\ Exported /\ scale = ScaleDen
    /\ Len(rooms) = 2 /\ rooms[1].area_px /= rooms[2].area_px

\* C16: on a wall mask without foreground, detect_walls returns no wall and
\* room detection no room, nothing raises, and the exported result counts 0
\* walls and 0 rooms.
C16_BlankMask ==
    cleaned = "blank" =>
        /\ error = "" /\ pc /= "raised"
        /\ Ran("wall_extraction") => walls = <<>>
        /\ Ran("room_extraction") => rooms = <<>>
        /\ Exported =>
              /\ final_json[1].metadata.total_walls = 0
              /\ final_json[1].metadata.total_rooms = 0
              /\ final_json[1].walls = <<>> /\ final_json[1].rooms = <<>>
        /\ (entry = "rooms" /\ pc = "returned") =>
              final_json[1].total_rooms = 0 /\ final_json[1].rooms = <<>>
        /\ (entry = "unified" /\ pc = "returned") => final_json[1].rooms = <<>>

\* The hybrid pipeline returned its result for a blank mask on which the
\* detector still reported an opening.
C16_Witness ==
    /\ cleaned = "blank" /\ entry = "hybrid" /\ pc = "returned"
    /\ Len(doors) >= 1
    /\ final_json[1].metadata.total_walls = 0

\* Segment b is segment a with start and end swapped.
Swapped(a, b) == b = <<a[3], a[4], a[1], a[2]>>

\* C17 (as specified): every wall angle of detect_walls lies in 0..180
\* degrees, and a segment and its swapped copy get the same angle, so that
\* they pass the angle test of merge_collinear_lines.
C17_AngleDirectionFree ==
    WallsDetected =>
        \A i \in 1..Len(lines), j \in 1..Len(lines) :
            /\ 0 <= wall_lines[i].angle /\ wall_lines[i].angle <= 180 * 100
            /\ Swapped(lines[i], lines[j]) =>
                  /\ wall_lines[i].angle = wall_lines[j].angle
                  /\ AngleDiff(wall_lines[i], wall_lines[j]) < AngleThreshold

\* The label contains the word, whatever the case of its letters.
LabelHas(det, word) ==
    \E k \in 0..(Len(det.name) - Len(word)) :
        \A m \in 1..Len(word) : LowerChar(det.name[k + m]) = word[m]

HasDoorLabel(det) == LabelHas(det, DoorWord)
HasWindowLabel(det) == LabelHas(det, WindowWord)
HasWindowLabelOnly(det) == LabelHas(det, WindowWord) /\ ~LabelHas(det, DoorWord)

\* The boxes of a list of element dicts, in order.
Boxes(elems) == [k \in 1..Len(elems) |-> elems[k].bbox]

\* The boxes of the detections that pass a test, in the detector's order.
BoxesOf(Test(_)) ==
    LET kept == SelectSeq(dets, Test)
    IN [k \in 1..Len(kept) |-> kept[k].box]

\* C19 as stated: the doors are the detections whose label contains 'door',
\* the windows those whose label contains 'window', in the detector's order,
\* everything else is discarded.
C19_LabelMatch ==
    Ran("opening_detection") =>
        /\ Boxes(doors) = BoxesOf(HasDoorLabel)
        /\ Boxes(windows) = BoxesOf(HasWindowLabel)

\* C19 (amended): the doors are the detections whose label contains 'door',
\* the windows those whose label contains 'window' but not 'door', both
\* compared case-insensitively and in the detector's order; every other
\* detection is discarded and no detection is in both lists.
C19_LabelMatchDoorFirst ==
    Ran("opening_detection") =>
        /\ Boxes(doors) = BoxesOf(HasDoorLabel)
        /\ Boxes(windows) = BoxesOf(HasWindowLabelOnly)
        /\ \A k \in 1..Len(doors) : \A m \in 1..Len(windows) :
              doors[k].bbox /= windows[m].bbox
        /\ Len(doors) + Len(windows) <= Len(dets)

\* Three detections: a door, a label with both words kept as a door only,
\* and an upper-case window.
C19_Witness ==
    /\ Ran("opening_detection")
    /\ Len(dets) = 3 /\ Len(doors) = 2 /\ Len(windows) = 1
    /\ \E k \in 1..3 : HasDoorLabel(dets[k]) /\ HasWindowLabel(dets[k])
    /\ windows[1].type = WindowWord

\* What detect_walls followed by detect_rooms returns on the mask.
SequentialWalls ==
    IF HoughLinesP(Canny(scene)) = <<>> THEN <<>>
    ELSE DetectWallsFrom(HoughLinesP(Canny(scene)), wall_thickness)

SequentialRooms == detect_rooms(FindContours(scene).contours)

\* C20: detect_walls and detect_rooms run as two tasks, in any interleaving
\* of their calls, return the wall list and the room list that running them
\* one after the other on the mask returns.
C20_OrderIndependent ==
    tasks /= <<>> =>
        /\ tasks.walls = "done" => walls = SequentialWalls
        /\ tasks.rooms = "done" => rooms = SequentialRooms
        /\ error = ""

\* The rooms task finished before the walls task; both found something.
C20_Witness ==
    /\ pc = "elements"
    /\ stages = <<"preprocessing", "room_extraction", "wall_extraction">>
    /\ walls /= <<>> /\ rooms /= <<>>

PlacesOf(j) ==
    {gm \in {<<g, m>> : g \in 1..Len(groups), m \in 1..Len(wall_lines)} :
        gm[2] <= Len(groups[gm[1]]) /\ groups[gm[1]][gm[2]] = j}

\* C24: every input segment stands in exactly one group, at one place; there
\* is one output segment per group, so never more than input segments; the
\* output segments follow the order of their group's first member; and a
\* segment that is still unused joins the group of segment i exactly when it
\* passes the test against segment i itself, the group's first member.
C24_GroupsPartitionInput ==
    WallsDetected =>
        /\ \A j \in 1..Len(wall_lines) : Cardinality(PlacesOf(j)) = 1
        /\ \A g \in 1..Len(groups) :
              groups[g] /= <<>> /\ Range(groups[g]) \subseteq 1..Len(wall_lines)
        /\ Len(walls) = Len(groups)
        /\ Len(walls) <= Len(wall_lines)
        /\ \A g \in 1..Len(groups) :
              /\ g > 1 => groups[g - 1][1] < groups[g][1]
              /\ walls[g].angle = wall_lines[groups[g][1]].angle
              /\ Len(groups[g]) = 1 => walls[g] = wall_lines[groups[g][1]]
              /\ Len(groups[g]) > 1 => {walls[g].start, walls[g].end} \subseteq GroupPoints(g)
        /\ \A g \in 1..Len(groups) : \A j \in 1..Len(wall_lines) :
              (j > groups[g][1] /\ j \notin UsedBefore(g)) =>
                 (j \in Range(groups[g]) <=>
                     Collinear(wall_lines[groups[g][1]], wall_lines[j]))

\* A segment stayed outside a group although it passes the test against a
\* later member of that group: only the first member was consulted.
C24_Witness ==
    /\ WallsDetected
    /\ \E g \in 1..Len(groups) : \E m \in 2..Len(groups[g]) :
          \E j \in 1..Len(wall_lines) :
             /\ j > groups[g][m]
             /\ j \notin UsedBefore(g)
             /\ j \notin Range(groups[g])
             /\ Collinear(wall_lines[groups[g][m]], wall_lines[j])
\* The stages of hybrid_floor_plan_analysis in the order of the data flow.
HybridOrder ==
    <<"preprocessing", "wall_extraction", "room_extraction", "opening_detection",
      "wall_association", "room_association", "scale_conversion", "visualization">>

\* What STEPS 2-5 make, in pixels, of the Hough segments, contours and
\* detector boxes of this run.
PixelWalls == IF lines = <<>> THEN <<>> ELSE DetectWallsFrom(lines, wall_thickness)
PixelRooms == detect_rooms(contours)
PixelDoors ==
    RoomsAssociated(WallsAssociated(detect_doors_windows(dets).doors, PixelWalls),
                    PixelRooms, "connects_rooms")
PixelWindows ==
    RoomsAssociated(WallsAssociated(detect_doors_windows(dets).windows, PixelWalls),
                    PixelRooms, "room_id")

\* C23: in a run of hybrid_floor_plan_analysis the stages that have run are
\* always an initial part of the data-flow order (so both associations come
\* after wall extraction, room extraction and opening detection, and scale
\* conversion after both associations), and once scale conversion has
\* produced the export, the rooms, walls, doors and windows that the renderer
\* is handed are still the pixel-space outputs of the earlier stages.
C23_ForwardFlow ==
    entry = "hybrid" =>
        /\ Len(stages) <= Len(HybridOrder)
        /\ stages = SubSeq(HybridOrder, 1, Len(stages))
        /\ pc \in {"overlay", "returned"} =>
              /\ final_json /= <<>>
              /\ walls = PixelWalls
              /\ rooms = PixelRooms
              /\ doors = PixelDoors
              /\ windows = PixelWindows

\* A run was rendered and returned at a scale other than one, with a room, a
\* wall and an opening in the lists.
C23_Witness ==
    /\ entry = "hybrid" /\ pc = "returned" /\ Ran("visualization")
    /\ scale /= ScaleDen
    /\ rooms /= <<>> /\ walls /= <<>> /\ Len(doors) + Len(windows) >= 1
\* The vectors from the centroid to the vertices, scaled by the number of
\* vertices.
CentroidVectors(pts) ==
    LET n == Len(pts)
        sx == SumCoord(pts, 1, n)
        sy == SumCoord(pts, 2, n)
    IN [k \in 1..n |-> <<n * pts[k][1] - sx, n * pts[k][2] - sy>>]

\* Two vectors of the same polar angle: on one ray from the origin (the zero
\* vector has the angle 0).
SamePolarAngle(u, v) ==
    /\ u[1] * v[2] - u[2] * v[1] = 0
    /\ \/ u[1] * v[1] + u[2] * v[2] > 0
       \/ u = <<0, 0>> /\ v[2] = 0 /\ v[1] >= 0
       \/ v = <<0, 0>> /\ u[2] = 0 /\ u[1] >= 0

\* The vertex lists that reached _order_clockwise in this run.
OrderInputs == {snap_axis_aligned(pts, SnapTolerance) : pts \in SnapInputs}

\* C22 (as specified): two vertices of the same polar angle about the
\* centroid stand in the output of _order_clockwise in the order in which
\* they stood in its input.
C22_TiesKeepInputOrder ==
    (entry = "rooms" /\ RoomsDetected) =>
        \A pts \in OrderInputs :
            LET out == order_clockwise(pts)
                vs == CentroidVectors(pts)
            IN \A i \in 1..Len(pts), j \in 1..Len(pts) :
                  (i < j /\ pts[i] /= pts[j] /\ SamePolarAngle(vs[i], vs[j])) =>
                     \E a \in 1..Len(out), b \in 1..Len(out) :
                        a < b /\ out[a] = pts[i] /\ out[b] = pts[j]
\* The pixels of the first or last row or column.
BorderPixels ==
    {p \in Grid : p[1] \in {0, GridShape[2] - 1} \/ p[2] \in {0, GridShape[1] - 1}}

\* A walk of 4-neighbours through non-wall pixels from p to a border pixel
\* exists; steps bounds its length.
RECURSIVE ReachesBorder(_, _, _)
ReachesBorder(p, seen, steps) ==
    /\ p \notin wall_px
    /\ \/ p \in BorderPixels
       \/ /\ steps > 0
          /\ \E q \in Grid \ (seen \cup wall_px) :
                 /\ Abs(p[1] - q[1]) + Abs(p[2] - q[2]) = 1
                 /\ ReachesBorder(q, seen \cup {p}, steps - 1)

\* The non-wall pixels connected to the image border through non-wall pixels.
Exterior == {p \in Grid : ReachesBorder(p, {}, Cardinality(Grid))}

\* C21 (as specified): the mask whose contours become rooms holds no wall
\* pixel and no pixel of the exterior, whatever the wall mask.
C21_MaskIsInterior ==
    pc = "contours" =>
        /\ rooms_px \cap wall_px = {}
        /\ rooms_px \cap Exterior = {}
====
